---- MODULE Spec2Model ----
(***************************************************************************)
(* State machine of the notes app of src/scripted.js: the in-memory note   *)
(* collection, the active selection, the localStorage blob, the two editor *)
(* inputs and the debounced autosave timer.  One action per event handler. *)
(***************************************************************************)
EXTENDS Integers, Sequences, FiniteSets, TLC

VARIABLES
    notes,          \* let notes = []            (scripted.js:25)
    activeNoteId,   \* let activeNoteId = null   (scripted.js:27): <<>> or <<id>>
    autosaveTimer,  \* let autosaveTimer = null  (scripted.js:29): 0 or a timer handle
    timers,         \* the browser's outstanding setTimeout timers: {[id, left]}
    storage,        \* localStorage[STORAGE_KEY]: the raw blob
    titleInput,     \* titleInput.value
    contentInput,   \* contentInput.value
    editorEnabled,  \* ~titleInput.disabled (set by renderEditor)
    listView,       \* the notes last handed to the list view by renderNotesList
    lastOp,         \* history: the handler that ran last
    sinceEdit,      \* history: ms since the last scheduleAutosave, capped at the delay
    staged,         \* history: <<title, content>> of the inputs at the last scheduleAutosave
    quiet,          \* history: nothing but time has passed since the last scheduleAutosave
    burstFires,     \* history: timer-driven saves since the last burst of edits began
    burstEdits      \* history: scheduleAutosave calls of that burst (counted up to 2)

vars == <<notes, activeNoteId, autosaveTimer, timers, storage, titleInput,
          contentInput, editorEnabled, listView, lastOp, sinceEdit, staged,
          quiet, burstFires, burstEdits>>

hist == <<sinceEdit, staged, quiet, burstFires, burstEdits>>

----------------------------------------------------------------------------
(* Bounds of the model *)

MaxTime == 1
MaxNotes == 2
MaxStored == 2
TickStep == 175

(* Program constants *)

\* the delay of scheduleAutosave's setTimeout
AutosaveDelay == 350

\* Date.now() readings
Times == 0..MaxTime

\* IEEE +Infinity, which JSON.parse yields for a stored 1e999; it exceeds every
\* clock reading, and Infinity - Infinity = NaN sorts as 0, like equal keys.
Infinity == 2^30

\* Texts the user can type in an input
Titles == {"", "a"}
Contents == {"", "b"}

\* Math.random().toString(16).slice(2): 0.5 gives "8" and 0.75 gives "c"
RandHex == {"8", "c"}

\* the suffixes drawn while the debounce is observed
BurstHex == {"8"}

\* activeNoteId is null or a string
Null == <<>>
Some(x) == <<x>>

----------------------------------------------------------------------------
(* JSON values of the stored blob *)

JNum(n) == [k |-> "number", n |-> n, s |-> ""]
JStr(s) == [k |-> "string", n |-> 0, s |-> s]
JNull == [k |-> "null", n |-> 0, s |-> ""]
JUndef == [k |-> "undefined", n |-> 0, s |-> ""]

\* a stringify that writes a number as a string
StringifyNumberQuoted(n) == JStr(ToString(n))

\* JSON.stringify of a number: a non-finite number is written as null
StringifyNumber(n) == IF n = Infinity THEN JNull ELSE JNum(n)

\* one item of the stored array; obj: it is an object (not null, not a number)
RawItem(obj, id, title, content, createdAt, updatedAt) ==
    [obj |-> obj, id |-> id, title |-> title, content |-> content,
     createdAt |-> createdAt, updatedAt |-> updatedAt]

\* JSON.stringify of one note
StringifyNote(n) ==
    RawItem(TRUE, JStr(n.id), JStr(n.title), JStr(n.content),
            StringifyNumber(n.createdAt), StringifyNumber(n.updatedAt))

\* JSON.stringify(notes)
Stringify(ns) == [kind |-> "array", items |-> [i \in 1..Len(ns) |-> StringifyNote(ns[i])]]

Note(id, title, content, createdAt, updatedAt) ==
    [id |-> id, title |-> title, content |-> content,
     createdAt |-> createdAt, updatedAt |-> updatedAt]

----------------------------------------------------------------------------
(* Helpers *)

generateId(t, r) == "n_" \o ToString(t) \o "_" \o r

RECURSIVE FindIndex(_, _, _)
\* index of the first note with this id from position i on, 0 if none
FindIndex(ns, id, i) ==
    IF i > Len(ns) THEN 0
    ELSE IF ns[i].id = id THEN i
    ELSE FindIndex(ns, id, i + 1)

\* notes.find((n) => n.id === activeNoteId) || null, as an index (0 = null)
getActiveNote(ns, active) ==
    IF active = Null THEN 0 ELSE FindIndex(ns, active[1], 1)

\* a comparator that sorts the oldest first
CompareAscending(a, b) == a.updatedAt - b.updatedAt

\* the comparator (a, b) => b.updatedAt - a.updatedAt
Compare(a, b) == b.updatedAt - a.updatedAt

\* insertion of n behind every element that does not sort after it (stable)
InsertNote(acc, n) ==
    LET k == Cardinality({i \in 1..Len(acc) : Compare(acc[i], n) <= 0})
    IN SubSeq(acc, 1, k) \o <<n>> \o SubSeq(acc, k + 1, Len(acc))

RECURSIVE SortFrom(_, _, _)
SortFrom(ns, i, acc) ==
    IF i > Len(ns) THEN acc ELSE SortFrom(ns, i + 1, InsertNote(acc, ns[i]))

\* notes.sort(...): Array.prototype.sort is stable
sortNotesByUpdatedAtDesc(ns) == SortFrom(ns, 1, <<>>)

----------------------------------------------------------------------------
(* Storage *)

\* one record of the .map of loadFromStorage
Sanitize(n, t) ==
    Note(n.id.s,
         IF n.title.k = "string" THEN n.title.s ELSE "",
         IF n.content.k = "string" THEN n.content.s ELSE "",
         IF n.createdAt.k = "number" THEN n.createdAt.n ELSE t,
         IF n.updatedAt.k = "number" THEN n.updatedAt.n ELSE t)

\* a filter that keeps every object, with or without a string id
IsObject(n) == n.obj

\* the .filter of loadFromStorage
HasStringId(n) == n.obj /\ n.id.k = "string"

\* a load that reads the records whatever the parsed value is
loadFromStorageUnchecked(raw, t) ==
    LET kept == SelectSeq(raw.items, HasStringId)
    IN [i \in 1..Len(kept) |-> Sanitize(kept[i], t)]

\* if (!raw) return []; JSON.parse throws and catch returns [];
\* if (!Array.isArray(parsed)) return []; else the filter and the map
loadFromStorage(raw, t) ==
    IF raw.kind # "array" THEN <<>>
    ELSE LET kept == SelectSeq(raw.items, HasStringId)
         IN [i \in 1..Len(kept) |-> Sanitize(kept[i], t)]

\* localStorage.setItem(STORAGE_KEY, JSON.stringify(notes))
saveToStorage(ns) == Stringify(ns)

----------------------------------------------------------------------------
(* Stored blobs the program may start from *)

\* a well-formed stored record
StoredNote == RawItem(TRUE, JStr("x"), JStr("a"), JStr("b"), JNum(0), JNum(0))

StoredItems ==
    { StoredNote,
      RawItem(TRUE, JStr("x"), JUndef, JNull, JUndef, JNum(1)),
      RawItem(TRUE, JStr(""), JStr("a"), JUndef, JStr("0"), JNum(Infinity)),
      RawItem(TRUE, JUndef, JStr("a"), JUndef, JNum(0), JNum(1)),
      RawItem(FALSE, JUndef, JUndef, JUndef, JUndef, JUndef) }

RECURSIVE SeqsUpTo(_, _)
SeqsUpTo(S, n) ==
    IF n = 0 THEN {<<>>}
    ELSE LET shorter == SeqsUpTo(S, n - 1)
         IN shorter \cup {Append(s, x) : s \in {q \in shorter : Len(q) = n - 1}, x \in S}

\* the key is missing, holds "", holds text that is no JSON, or holds the JSON of
\* one record that is not wrapped in an array; or it holds an array of records
InitBlobs ==
    {[kind |-> k, items |-> <<>>] : k \in {"missing", "empty", "malformed"}}
    \cup {[kind |-> "nonarray", items |-> <<StoredNote>>]}
    \cup {[kind |-> "array", items |-> s] : s \in SeqsUpTo(StoredItems, MaxStored)}

----------------------------------------------------------------------------
(* Pieces of the handlers *)

\* an insertion at the end of the array
Push(ns, n) == Append(ns, n)

\* notes.unshift(newNote)
Unshift(ns, n) == <<n>> \o ns

\* a note literal that leaves createdAt at 0
NewNoteUnstamped(id, now) == Note(id, "", "", 0, now)

\* the newNote literal of createNewNote
NewNote(id, now) == Note(id, "", "", now, now)

\* a save that stamps createdAt as well
StampNoteRecreated(n, title, content, now) ==
    [n EXCEPT !.title = title, !.content = content, !.updatedAt = now, !.createdAt = now]

\* the three assignments of saveActiveNote
StampNote(n, title, content, now) ==
    [n EXCEPT !.title = title, !.content = content, !.updatedAt = now]

\* notes.filter((n) => n.id !== activeNoteId)
RemoveActive(ns, id) ==
    LET keep(n) == n.id # id IN SelectSeq(ns, keep)

\* an openNote that only checks that there is a note
ExistsAny(ns, id) == Len(ns) > 0

\* an openNote without its existence check
ExistsUnchecked(ns, id) == TRUE

\* notes.some((n) => n.id === id)
Exists(ns, id) == \E i \in 1..Len(ns) : ns[i].id = id

\* a choice of the next active note that always clears the selection
AlwaysNull(ns) == Null

\* notes.length ? notes[0].id : null
FirstIdOrNull(ns) == IF Len(ns) > 0 THEN Some(ns[1].id) ELSE Null

\* !activeNoteId is true of null and of the empty string
Truthy(active) == active # Null /\ active[1] # ""

\* renderEditor: the values it puts in <<titleInput.value, contentInput.value, enabled>>
renderEditor(ns, active) ==
    LET i == getActiveNote(ns, active)
    IN IF i = 0 THEN <<"", "", FALSE>> ELSE <<ns[i].title, ns[i].content, TRUE>>

\* clearTimeout(h)
ClearTimeout(ts, h) == {x \in ts : x.id # h}

\* a scheduleAutosave that never cancels the pending timer
ClearHeldNever(ts, held) == ts

\* if (autosaveTimer) clearTimeout(autosaveTimer)
ClearHeld(ts, held) == IF held # 0 THEN ClearTimeout(ts, held) ELSE ts

\* the handle setTimeout returns: one no outstanding timer has.  Handles are
\* opaque, so only equality with an outstanding timer's handle matters.
FreshHandle(ts) ==
    CHOOSE h \in 1..(Cardinality(ts) + 1) :
        /\ \A x \in ts : x.id # h
        /\ \A g \in 1..(h - 1) : \E x \in ts : x.id = g

\* setTimeout(callback, delay), returning handle h
SetTimeout(ts, h, delay) == ts \cup {[id |-> h, left |-> delay]}

Min(a, b) == IF a < b THEN a ELSE b
Max(a, b) == IF a > b THEN a ELSE b

----------------------------------------------------------------------------
(* Init: the state after the script ran init() *)

InitFrom(blobs) ==
    \E raw \in blobs, t \in Times :
        LET loaded == sortNotesByUpdatedAtDesc(loadFromStorage(raw, t))
            active == FirstIdOrNull(loaded)
            ed == renderEditor(loaded, active)
        IN /\ storage = raw
           /\ notes = loaded
           /\ activeNoteId = active
           /\ listView = loaded
           /\ titleInput = ed[1]
           /\ contentInput = ed[2]
           /\ editorEnabled = ed[3]
           /\ autosaveTimer = 0
           /\ timers = {}
           /\ lastOp = "init"
           /\ sinceEdit = AutosaveDelay
           /\ staged = <<"", "">>
           /\ quiet = FALSE
           /\ burstFires = 0
           /\ burstEdits = 0

Init == InitFrom(InitBlobs)

----------------------------------------------------------------------------
(* Actions.  ok says whether localStorage.setItem accepts the write; when it *)
(* throws, the rest of the handler does not run.  lastOp names the handler   *)
(* that last changed something ("noop": it returned early).                  *)

\* createBtn click
CreateNewNote(now, r, ok) ==
    LET newNote == NewNote(generateId(now, r), now)
        added == Unshift(notes, newNote)
        sorted == sortNotesByUpdatedAtDesc(added)
        ed == renderEditor(sorted, Some(newNote.id))
    IN /\ activeNoteId' = Some(newNote.id)
       /\ IF ok
          THEN /\ storage' = saveToStorage(added)
               /\ notes' = sorted
               /\ listView' = sorted
               /\ titleInput' = ed[1]
               /\ contentInput' = ed[2]
               /\ editorEnabled' = ed[3]
               /\ lastOp' = "create"
          ELSE /\ notes' = added
               /\ lastOp' = "createThrew"
               /\ UNCHANGED <<storage, listView, titleInput, contentInput, editorEnabled>>
       /\ UNCHANGED <<autosaveTimer, timers>>

\* click on a list entry: openNote(id)
OpenNote(id) ==
    LET exists == Exists(notes, id)
        sorted == sortNotesByUpdatedAtDesc(notes)
        ed == renderEditor(sorted, Some(id))
    IN /\ IF exists
          THEN /\ activeNoteId' = Some(id)
               /\ notes' = sorted
               /\ listView' = sorted
               /\ titleInput' = ed[1]
               /\ contentInput' = ed[2]
               /\ editorEnabled' = ed[3]
               /\ lastOp' = "open"
          ELSE /\ lastOp' = "noop"
               /\ UNCHANGED <<activeNoteId, notes, listView, titleInput,
                              contentInput, editorEnabled>>
       /\ UNCHANGED <<storage, autosaveTimer, timers>>

\* the body of saveActiveNote(): notes, storage and listView after it
SaveEffect(now, ok) ==
    LET i == getActiveNote(notes, activeNoteId)
        updated == [notes EXCEPT ![i] = StampNote(@, titleInput, contentInput, now)]
        sorted == sortNotesByUpdatedAtDesc(updated)
    IN IF i = 0 THEN UNCHANGED <<notes, storage, listView>>
       ELSE IF ok
            THEN /\ notes' = sorted
                 /\ storage' = saveToStorage(updated)
                 /\ listView' = sorted
            ELSE /\ notes' = updated
                 /\ UNCHANGED <<storage, listView>>

\* lastOp after saveActiveNote() ran from the handler how
SaveOutcome(how, ok) ==
    IF getActiveNote(notes, activeNoteId) = 0 THEN "noop"
    ELSE IF ok THEN how ELSE how \o "Threw"

\* saveBtn click, or Ctrl/Cmd+S
SaveActiveNote(now, ok) ==
    /\ SaveEffect(now, ok)
    /\ lastOp' = SaveOutcome("save", ok)
    /\ UNCHANGED <<activeNoteId, autosaveTimer, timers, titleInput, contentInput,
                   editorEnabled>>

\* deleteBtn click; confirmed is the answer to confirm(...)
DeleteActiveNote(confirmed, ok) ==
    LET i == getActiveNote(notes, activeNoteId)
        remaining == RemoveActive(notes, activeNoteId[1])
        next == FirstIdOrNull(remaining)
        sorted == sortNotesByUpdatedAtDesc(remaining)
        ed == renderEditor(sorted, next)
    IN /\ IF i = 0 \/ ~confirmed
          THEN /\ lastOp' = "noop"
               /\ UNCHANGED <<notes, activeNoteId, storage, listView, titleInput,
                              contentInput, editorEnabled>>
          ELSE /\ activeNoteId' = next
               /\ IF ok
                  THEN /\ storage' = saveToStorage(remaining)
                       /\ notes' = sorted
                       /\ listView' = sorted
                       /\ titleInput' = ed[1]
                       /\ contentInput' = ed[2]
                       /\ editorEnabled' = ed[3]
                       /\ lastOp' = "delete"
                  ELSE /\ notes' = remaining
                       /\ lastOp' = "deleteThrew"
                       /\ UNCHANGED <<storage, listView, titleInput, contentInput,
                                      editorEnabled>>
       /\ UNCHANGED <<autosaveTimer, timers>>

\* scheduleAutosave(): <<timers, autosaveTimer>> after it
scheduleAutosave(ts, held) ==
    LET cleared == ClearHeld(ts, held)
        h == FreshHandle(cleared)
    IN <<SetTimeout(cleared, h, AutosaveDelay), h>>

\* what an input handler does after the user changed the input's value
InputEffect ==
    IF Truthy(activeNoteId)
    THEN LET scheduled == scheduleAutosave(timers, autosaveTimer)
             sorted == sortNotesByUpdatedAtDesc(notes)
         IN /\ timers' = scheduled[1]
            /\ autosaveTimer' = scheduled[2]
            /\ notes' = sorted
            /\ listView' = sorted
            /\ lastOp' = "input"
    ELSE /\ lastOp' = "noop"
         /\ UNCHANGED <<timers, autosaveTimer, notes, listView>>

\* titleInput "input" event: the user made the title v
TitleInput(v) ==
    /\ editorEnabled
    /\ titleInput' = v
    /\ InputEffect
    /\ UNCHANGED <<activeNoteId, storage, contentInput, editorEnabled>>

\* contentInput "input" event: the user made the content v
ContentInput(v) ==
    /\ editorEnabled
    /\ contentInput' = v
    /\ InputEffect
    /\ UNCHANGED <<activeNoteId, storage, titleInput, editorEnabled>>

\* the autosave timer's callback runs: () => { saveActiveNote(); }
TimerFire(now, ok) ==
    \E x \in timers :
        /\ x.left = 0
        /\ timers' = timers \ {x}
        /\ SaveEffect(now, ok)
        /\ lastOp' = SaveOutcome("timer", ok)
        /\ UNCHANGED <<activeNoteId, autosaveTimer, titleInput, contentInput,
                       editorEnabled>>

\* TickStep ms pass
Tick ==
    /\ timers' = {[x EXCEPT !.left = Max(0, @ - TickStep)] : x \in timers}
    /\ UNCHANGED <<lastOp, notes, activeNoteId, autosaveTimer, storage, titleInput,
                   contentInput, editorEnabled, listView>>

\* ids a list entry can be clicked for, and two that perhaps no note has
OpenIds == {notes[i].id : i \in 1..Len(notes)} \cup {"x", "gone"}

\* the model creates no note beyond cap notes
CanCreate(cap) == Len(notes) < cap

Next ==
    \/ \E now \in Times, r \in RandHex :
          CanCreate(MaxNotes) /\ CreateNewNote(now, r, TRUE) /\ UNCHANGED hist
    \/ \E id \in OpenIds : OpenNote(id) /\ UNCHANGED hist
    \/ \E now \in Times : SaveActiveNote(now, TRUE) /\ UNCHANGED hist
    \/ \E confirmed \in BOOLEAN : DeleteActiveNote(confirmed, TRUE) /\ UNCHANGED hist
    \/ \E v \in Titles : TitleInput(v) /\ UNCHANGED hist
    \/ \E v \in Contents : ContentInput(v) /\ UNCHANGED hist
    \/ \E now \in Times : TimerFire(now, TRUE) /\ UNCHANGED hist
    \/ Tick /\ UNCHANGED hist

Spec == Init /\ [][Next]_vars

\* the stored blobs whose loaded collection has no duplicate id
DupFreeBlobs ==
    {raw \in InitBlobs :
        LET loaded == loadFromStorage(raw, 0)
        IN \A i, j \in 1..Len(loaded) : loaded[i].id = loaded[j].id => i = j}

\* the program started from an empty or duplicate-free stored collection
SpecCleanLoad == InitFrom(DupFreeBlobs) /\ [][Next]_vars

----------------------------------------------------------------------------
(* The debounce, observed through the history variables *)

\* a handler other than an input handler that scheduled ran
HistOther == quiet' = FALSE /\ UNCHANGED <<sinceEdit, staged, burstFires, burstEdits>>

\* an input handler ran
HistInput ==
    IF lastOp' = "input"
    THEN /\ sinceEdit' = 0
         /\ staged' = <<titleInput', contentInput'>>
         /\ quiet' = TRUE
         /\ burstFires' = IF quiet /\ sinceEdit < AutosaveDelay THEN burstFires ELSE 0
         /\ burstEdits' = IF quiet /\ sinceEdit < AutosaveDelay
                          THEN Min(burstEdits + 1, 2) ELSE 1
    ELSE HistOther

HistFire ==
    /\ burstFires' = Min(burstFires + 1, 2)
    /\ UNCHANGED <<sinceEdit, staged, quiet, burstEdits>>

HistTick ==
    /\ sinceEdit' = Min(sinceEdit + TickStep, AutosaveDelay)
    /\ UNCHANGED <<staged, quiet, burstFires, burstEdits>>

NextDebounce ==
    \/ \E now \in Times, r \in BurstHex :
          CanCreate(MaxNotes) /\ CreateNewNote(now, r, TRUE) /\ HistOther
    \/ \E id \in OpenIds : OpenNote(id) /\ HistOther
    \/ \E now \in Times : SaveActiveNote(now, TRUE) /\ HistOther
    \/ \E confirmed \in BOOLEAN : DeleteActiveNote(confirmed, TRUE) /\ HistOther
    \/ \E v \in Titles : TitleInput(v) /\ HistInput
    \/ \E v \in Contents : ContentInput(v) /\ HistInput
    \/ \E now \in Times : TimerFire(now, TRUE) /\ HistFire
    \/ Tick /\ HistTick

SpecDebounce == Init /\ [][NextDebounce]_vars

----------------------------------------------------------------------------
(* Properties *)

IsSortedDesc(ns) == \A i \in 1..(Len(ns) - 1) : ns[i].updatedAt >= ns[i + 1].updatedAt

RemoveAt(s, j) == SubSeq(s, 1, j - 1) \o SubSeq(s, j + 1, Len(s))

\* the stored record that holds note n's five fields as they are in memory
RecordOf(n) ==
    RawItem(TRUE, JStr(n.id), JStr(n.title), JStr(n.content),
            JNum(n.createdAt), JNum(n.updatedAt))

\* the blob is an array of exactly the notes in memory, in some order
BlobHoldsNotes ==
    /\ storage.kind = "array"
    /\ Len(storage.items) = Len(notes)
    /\ \E f \in Permutations(1..Len(notes)) :
          \A i \in 1..Len(notes) : storage.items[f[i]] = RecordOf(notes[i])

\* C1: the active id is null or the id of a note in the collection
ActiveSelectionInv ==
    activeNoteId = Null \/ \E i \in 1..Len(notes) : notes[i].id = activeNoteId[1]

\* a delete has moved the selection to a note that is left
ActiveSelectionWitness == lastOp = "delete" /\ activeNoteId # Null /\ Len(notes) >= 1

\* C3: the list handed to the view (and the collection behind it) is sorted by
\* updatedAt, newest first
OrderingInv == IsSortedDesc(listView) /\ listView = notes

\* a create whose note did not stay at the head: the sort moved it behind a newer one
OrderingWitness ==
    /\ lastOp = "create"
    /\ Len(listView) >= 2
    /\ listView[1].updatedAt > listView[2].updatedAt
    /\ activeNoteId = Some(listView[2].id)
    /\ listView[1].id # listView[2].id

\* C9: create adds one note with empty title and content and both timestamps
\* equal to the clock reading, keeps the other notes as they were and in their
\* order, persists the new note and makes its id the active id
CreatePost(now) ==
    \E j \in 1..Len(notes') :
        /\ notes'[j].title = "" /\ notes'[j].content = ""
        /\ notes'[j].createdAt = now /\ notes'[j].updatedAt = now
        /\ RemoveAt(notes', j) = notes
        /\ activeNoteId' = Some(notes'[j].id)
        /\ storage'.kind = "array"
        /\ \E k \in 1..Len(storage'.items) : storage'.items[k] = RecordOf(notes'[j])

SavePost ==
    LET i == getActiveNote(notes, activeNoteId)
    IN /\ activeNoteId' = activeNoteId
       /\ Len(notes') = Len(notes)
       /\ IF i = 0 THEN notes' = notes
          ELSE \E j \in 1..Len(notes') :
                  /\ RemoveAt(notes', j) = RemoveAt(notes, i)
                  /\ notes'[j].id = notes[i].id
                  /\ notes'[j].createdAt = notes[i].createdAt

SaveFrame ==
    [][\A now \in Times : (SaveActiveNote(now, TRUE) \/ TimerFire(now, TRUE)) => SavePost]_vars

\* a timer-driven save has run beside another note, and changed the saved note's text
SaveFrameWitness ==
    /\ lastOp = "timer"
    /\ Len(notes) >= 2
    /\ notes[1].id = activeNoteId[1]
    /\ notes[1].title = "a"
    /\ notes[1].createdAt # notes[1].updatedAt

\* a confirmed delete of a resolvable active note
DeleteStep == DeleteActiveNote(TRUE, TRUE) /\ getActiveNote(notes, activeNoteId) # 0

\* id is the id of a note of ns that no note of ns is newer than
IsNewestOf(ns, id) ==
    \E j \in 1..Len(ns) :
        ns[j].id = id /\ \A k \in 1..Len(ns) : ns[j].updatedAt >= ns[k].updatedAt

\* C2 as claimed: a confirmed delete on one note clears the selection, and on
\* more than one note selects a surviving note that none is newer than
DeleteSelectsNewest ==
    [][DeleteStep =>
         IF Len(notes) = 1 THEN activeNoteId' = Null
         ELSE activeNoteId' # Null /\ IsNewestOf(notes', activeNoteId'[1])]_vars

\* C4: at most one autosave timer is outstanding; and while nothing but time
\* has passed since the last edit notification of a burst, the burst has had no
\* timer-driven save and exactly one timer is pending, due one delay after that
\* notification, or it has had exactly one, run no earlier than one delay after
\* that notification, which stored the title and content staged then
DebounceInv ==
    /\ Cardinality(timers) <= 1
    /\ quiet =>
          /\ burstFires <= 1
          /\ burstFires = 0 =>
                \E x \in timers : timers = {x} /\ x.left = AutosaveDelay - sinceEdit
          /\ burstFires = 1 =>
                /\ timers = {}
                /\ sinceEdit = AutosaveDelay
                /\ activeNoteId # Null
                /\ \E i \in 1..Len(notes) :
                      /\ notes[i].id = activeNoteId[1]
                      /\ notes[i].title = staged[1]
                      /\ notes[i].content = staged[2]

\* a burst of two edit notifications has ended in its one timer-driven save
DebounceWitness ==
    /\ quiet
    /\ lastOp = "timer"
    /\ burstEdits = 2
    /\ burstFires = 1
    /\ staged = <<"a", "b">>

\* C5 as claimed: from an explicit save until the next handler runs, no autosave
\* timer is outstanding
ExplicitSaveLeavesIdle == lastOp = "save" => timers = {}

\* C6 as claimed: from a confirmed delete until the next handler runs, no
\* autosave timer is outstanding
DeleteLeavesIdle == lastOp = "delete" => timers = {}

\* C7 as claimed: no two notes in memory and no two records of the stored array
\* have the same id
NoDuplicateIds ==
    /\ \A i, j \in 1..Len(notes) : notes[i].id = notes[j].id => i = j
    /\ storage.kind = "array" =>
          \A i, j \in 1..Len(storage.items) :
              (storage.items[i].obj /\ storage.items[j].obj
               /\ storage.items[i].id.k = "string"
               /\ storage.items[i].id = storage.items[j].id) => i = j

\* C8 as claimed: after a create, a save of an existing active note or a
\* confirmed delete, the blob holds exactly the notes in memory, field by field
StoreMatchesMemory ==
    lastOp \in {"create", "save", "timer", "delete"} => BlobHoldsNotes

----------------------------------------------------------------------------
(* C11 *)

\* no note of the collection has this id
Absent(id) == \A i \in 1..Len(notes) : notes[i].id # id

\* the active id is null or the id of no note
NoneActive == activeNoteId = Null \/ Absent(activeNoteId[1])

\* openNote of an absent id, or saveActiveNote (from the button, the shortcut or
\* the timer) or deleteActiveNote while no note is active; ok: whether a write
\* would be accepted
NotFoundStep(ok) ==
    \/ \E id \in OpenIds : Absent(id) /\ OpenNote(id)
    \/ NoneActive /\ \E now \in Times : SaveActiveNote(now, ok) \/ TimerFire(now, ok)
    \/ NoneActive /\ \E confirmed \in BOOLEAN : DeleteActiveNote(confirmed, ok)

\* C11: selecting an absent id, and saving or deleting while no note is active,
\* leave the collection, the active id and the blob unchanged and end without a
\* throw, whether or not localStorage would accept a write
NotFoundIsNoOp ==
    [][\A ok \in BOOLEAN :
          NotFoundStep(ok) =>
             /\ UNCHANGED <<notes, activeNoteId, storage>>
             /\ lastOp' = "noop"]_vars

\* a not-found operation has run on a collection the program has emptied, and
\* the blob still holds the empty array written then
NotFoundWitness ==
    /\ lastOp = "noop"
    /\ activeNoteId = Null
    /\ notes = <<>>
    /\ storage = [kind |-> "array", items |-> <<>>]

----------------------------------------------------------------------------
(* C12 *)

\* the stored value is missing, empty, no JSON or no array
NotAnArray == storage.kind \in {"missing", "empty", "malformed", "nonarray"}

\* C12: when the key is missing or its value is not the JSON of an array,
\* startup ends with an empty collection, a null active id and a disabled,
\* empty editor (loadFromStorage returned [] and init() ran to its end)
LoadFailsSoft ==
    (lastOp = "init" /\ NotAnArray) =>
        /\ notes = <<>> /\ listView = <<>>
        /\ activeNoteId = Null
        /\ ~editorEnabled /\ titleInput = "" /\ contentInput = ""

\* startup has ended on a stored value that parses to something else than an array
LoadFailsSoftWitness ==
    lastOp = "init" /\ storage.kind = "nonarray" /\ notes = <<>> /\ activeNoteId = Null

----------------------------------------------------------------------------
(* loadFromStorage as a function of the stored value and the clock: the      *)
(* script has set up its state (lines 25-29) and notes = loadFromStorage()   *)
(* of line 241 is applied to stored values that come and go.                 *)

\* the state of the script before init() runs
BeforeInit ==
    /\ notes = <<>>
    /\ activeNoteId = Null
    /\ autosaveTimer = 0
    /\ timers = {}
    /\ listView = <<>>
    /\ titleInput = "" /\ contentInput = "" /\ editorEnabled = FALSE
    /\ sinceEdit = AutosaveDelay /\ staged = <<"", "">> /\ quiet = FALSE
    /\ burstFires = 0 /\ burstEdits = 0

InitLoad == BeforeInit /\ storage \in InitBlobs /\ lastOp = "start"

\* notes = loadFromStorage(), with the clock reading t
LoadStep(t) ==
    /\ notes' = loadFromStorage(storage, t)
    /\ lastOp' = "load"
    /\ UNCHANGED <<activeNoteId, autosaveTimer, timers, storage, titleInput,
                   contentInput, editorEnabled, listView, hist>>

\* the stored value is replaced from outside the page
StoreStep(raw) ==
    /\ storage' = raw
    /\ lastOp' = "store"
    /\ UNCHANGED <<notes, activeNoteId, autosaveTimer, timers, titleInput,
                   contentInput, editorEnabled, listView, hist>>

NextLoad ==
    \/ \E t \in Times : LoadStep(t)
    \/ \E raw \in InitBlobs : StoreStep(raw)

SpecLoad == InitLoad /\ [][NextLoad]_vars

----------------------------------------------------------------------------
(* C13 *)

\* the positions of the stored array that hold an object with a string id
KeptPositions ==
    {i \in 1..Len(storage.items) :
        storage.items[i].obj /\ storage.items[i].id.k = "string"}

\* note n is what the load makes of the stored record rec at clock reading t
IsSanitized(n, rec, t) ==
    /\ n.id = rec.id.s
    /\ n.title = (IF rec.title.k = "string" THEN rec.title.s ELSE "")
    /\ n.content = (IF rec.content.k = "string" THEN rec.content.s ELSE "")
    /\ n.createdAt = (IF rec.createdAt.k = "number" THEN rec.createdAt.n ELSE t)
    /\ n.updatedAt = (IF rec.updatedAt.k = "number" THEN rec.updatedAt.n ELSE t)

\* C13: a load of a stored array yields, in stored order, one note for each
\* record with a string id and none for the others, duplicates included; the
\* note has the record's id, its title and content where they are strings and
\* "" otherwise, its timestamps where they are numbers and the clock reading
\* otherwise
LoadSanitizes ==
    [][\A t \in Times :
          (LoadStep(t) /\ storage.kind = "array") =>
             /\ Len(notes') = Cardinality(KeptPositions)
             /\ \E f \in [1..Len(notes') -> KeptPositions] :
                   /\ \A i, j \in 1..Len(notes') : i < j => f[i] < f[j]
                   /\ \A i \in 1..Len(notes') :
                         IsSanitized(notes'[i], storage.items[f[i]], t)]_vars

\* a load has dropped the first of two stored records and filled the title,
\* the content and createdAt of the second
LoadSanitizesWitness ==
    /\ lastOp = "load"
    /\ storage.kind = "array" /\ Len(storage.items) = 2
    /\ ~storage.items[1].obj
    /\ Len(notes) = 1
    /\ notes[1].id = "x" /\ notes[1].title = "" /\ notes[1].content = ""
    /\ notes[1].createdAt = 1 /\ notes[1].updatedAt = 1

----------------------------------------------------------------------------
(* C14 *)

\* C14 as claimed: a load that follows a load, with no write to the stored
\* value between them and any two clock readings, yields the same collection
LoadIsIdempotent ==
    [][\A t \in Times : (LoadStep(t) /\ lastOp = "load") => notes' = notes]_vars

----------------------------------------------------------------------------
(* The program in a browser whose store holds no value at first, with the    *)
(* page loaded again at any time: every note in memory was made by           *)
(* createNewNote, changed by saveActiveNote, or loaded from a blob that      *)
(* saveToStorage wrote.                                                      *)

\* the key is missing
FreshBlobs == {raw \in InitBlobs : raw.kind = "missing"}

\* the page is loaded again: the script starts over and runs init() on the
\* stored value; pending timers of the old page are gone
Reload(t) ==
    LET loaded == sortNotesByUpdatedAtDesc(loadFromStorage(storage, t))
        active == FirstIdOrNull(loaded)
        ed == renderEditor(loaded, active)
    IN /\ notes' = loaded
       /\ activeNoteId' = active
       /\ listView' = loaded
       /\ titleInput' = ed[1]
       /\ contentInput' = ed[2]
       /\ editorEnabled' = ed[3]
       /\ autosaveTimer' = 0
       /\ timers' = {}
       /\ lastOp' = "reload"
       /\ UNCHANGED storage

NextReload ==
    \/ Next
    \/ \E t \in Times : Reload(t) /\ UNCHANGED hist

SpecReload == InitFrom(FreshBlobs) /\ [][NextReload]_vars

----------------------------------------------------------------------------
(* C15 *)

\* the notes of the collection in the order p
Reordered(p) == [i \in 1..Len(notes) |-> notes[p[i]]]

\* C15: every collection made by create, save and delete, taken in any order
\* of its notes, is what loadFromStorage returns from the blob saveToStorage
\* writes for it: the same notes in the same order with the same five fields;
\* and a reload of the page from a blob the program wrote restores the
\* collection that was in memory
SaveLoadRoundTrip ==
    /\ [](\A t \in Times : \A p \in Permutations(1..Len(notes)) :
             loadFromStorage(saveToStorage(Reordered(p)), t) = Reordered(p))
    /\ [][\A t \in Times : (Reload(t) /\ storage.kind = "array") => notes' = notes]_vars

\* the page was loaded again on two notes, the first of them edited and saved
\* after it was created
SaveLoadWitness ==
    /\ lastOp = "reload"
    /\ Len(notes) = 2
    /\ notes[1].title = "a"
    /\ notes[1].updatedAt > notes[1].createdAt

----------------------------------------------------------------------------
(* The program with a store that may reject any write (localStorage.setItem  *)
(* throws, e.g. QuotaExceededError): the handler ends at saveToStorage().    *)
(* The handlers that write, and the selection; a timer-driven save is        *)
(* saveActiveNote() as well.                                                 *)

NextWriteFail ==
    \/ \E now \in Times, r \in BurstHex, ok \in BOOLEAN :
          CanCreate(MaxNotes) /\ CreateNewNote(now, r, ok) /\ UNCHANGED hist
    \/ \E id \in OpenIds : OpenNote(id) /\ UNCHANGED hist
    \/ \E now \in Times, ok \in BOOLEAN : SaveActiveNote(now, ok) /\ UNCHANGED hist
    \/ \E confirmed, ok \in BOOLEAN : DeleteActiveNote(confirmed, ok) /\ UNCHANGED hist

SpecWriteFail == InitFrom(FreshBlobs) /\ [][NextWriteFail]_vars

----------------------------------------------------------------------------
(* C16 *)

\* a create, a save of a resolvable active note or a confirmed delete of one,
\* whose write the store rejects
RejectedWrite ==
    \/ \E now \in Times, r \in RandHex : CreateNewNote(now, r, FALSE)
    \/ ~NoneActive /\ \E now \in Times : SaveActiveNote(now, FALSE)
    \/ ~NoneActive /\ DeleteActiveNote(TRUE, FALSE)

\* C16 as claimed: a rejected write leaves the collection and the active id as
\* they were before the operation, or the collection empty, and the collection
\* sorted with the active id null or the id of one of its notes
RejectedWriteKeepsState ==
    [][RejectedWrite =>
          /\ \/ notes' = notes /\ activeNoteId' = activeNoteId
             \/ notes' = <<>>
          /\ IsSortedDesc(notes')
          /\ \/ activeNoteId' = Null
             \/ \E i \in 1..Len(notes') : notes'[i].id = activeNoteId'[1]]_vars

----------------------------------------------------------------------------
(* C17 *)

\* no note of the collection was updated later than the clock reading now
ClockNotBehind(now) == \A i \in 1..Len(notes) : notes[i].updatedAt <= now

\* C17: when the clock reading of a create is not earlier than the updatedAt
\* of any note (as under a non-decreasing clock and no later stored timestamp),
\* the created note is the first note of the collection and of the list view
\* right after the create, ties included; and a confirmed delete of the first
\* note, when it is active and the second has another id, makes the second
\* the active note
NewNoteIsFirst ==
    /\ [][\A now \in Times, r \in RandHex :
             (CreateNewNote(now, r, TRUE) /\ ClockNotBehind(now)) =>
                /\ notes'[1] = NewNote(generateId(now, r), now)
                /\ listView'[1] = notes'[1]
                /\ activeNoteId' = Some(listView'[1].id)]_vars
    /\ [][(/\ DeleteActiveNote(TRUE, TRUE)
           /\ Len(notes) >= 2
           /\ activeNoteId = Some(notes[1].id)
           /\ notes[2].id # notes[1].id) =>
              activeNoteId' = Some(notes[2].id)]_vars

\* a create has put its note before a note with the same updatedAt
NewNoteIsFirstWitness ==
    /\ lastOp = "create"
    /\ Len(listView) = 2
    /\ listView[1].updatedAt = listView[2].updatedAt
    /\ listView[1].title = "" /\ listView[2].title = "a"
    /\ listView[1].id # listView[2].id
    /\ activeNoteId = Some(listView[1].id)

----------------------------------------------------------------------------
(* The program with a user who types only while the note with the id         *)
(* EditedId is the active note: every timer is armed by an edit to it, and   *)
(* staged holds the title and content the user last typed for it.            *)

EditedId == "x"

NextArmed ==
    \/ \E now \in Times, r \in BurstHex :
          CanCreate(MaxNotes) /\ CreateNewNote(now, r, TRUE) /\ HistOther
    \/ \E id \in OpenIds : OpenNote(id) /\ HistOther
    \/ \E now \in Times : SaveActiveNote(now, TRUE) /\ HistOther
    \/ \E confirmed \in BOOLEAN : DeleteActiveNote(confirmed, TRUE) /\ HistOther
    \/ \E v \in Titles : activeNoteId = Some(EditedId) /\ TitleInput(v) /\ HistInput
    \/ \E v \in Contents : activeNoteId = Some(EditedId) /\ ContentInput(v) /\ HistInput
    \/ \E now \in Times : TimerFire(now, TRUE) /\ HistFire
    \/ Tick /\ HistTick

SpecArmed == Init /\ [][NextArmed]_vars

----------------------------------------------------------------------------
(* C18 *)

\* C18 as claimed: when the timer fires, every note whose id is not the id of
\* the note that was active at the edits is in the collection afterwards with
\* the fields it had
TimerSparesOtherNotes ==
    [][(\E now \in Times : TimerFire(now, TRUE)) =>
          \A i \in 1..Len(notes) :
              notes[i].id # EditedId => \E j \in 1..Len(notes') : notes'[j] = notes[i]]_vars

----------------------------------------------------------------------------
(* C19 *)

\* C19 as claimed: when the timer has fired and saved, and the edited note is
\* still in the collection, a note with its id has the title and content the
\* user last typed for it, in memory and in the blob
NoEditIsLost ==
    (lastOp = "timer" /\ ~Absent(EditedId)) =>
        \E i \in 1..Len(notes) :
            /\ notes[i].id = EditedId
            /\ notes[i].title = staged[1] /\ notes[i].content = staged[2]
            /\ \E k \in 1..Len(storage.items) : storage.items[k] = StringifyNote(notes[i])

----------------------------------------------------------------------------
(* C20 *)

\* C20: the active id is null exactly when the collection is empty; and when it
\* is not empty, getActiveNote() resolves the active id to a note
NullIffEmpty ==
    /\ activeNoteId = Null <=> notes = <<>>
    /\ notes # <<>> => getActiveNote(notes, activeNoteId) # 0

\* a confirmed delete has removed the last note and cleared the selection
NullIffEmptyWitness ==
    /\ lastOp = "delete"
    /\ notes = <<>>
    /\ activeNoteId = Null
    /\ ~editorEnabled

====
